---- MODULE Spec2Model ----
(***************************************************************************)
(* Task generation for a roster of students through a remote chat model:   *)
(* the two script variants src/test5.py (simpler) and src/test7.py         *)
(* (extended: normalisation, title de-duplication, memo cache).            *)
(*                                                                         *)
(* Representation.                                                         *)
(*  - A Python str is a sequence of atoms.  An atom is one character       *)
(*    (" ", "LF", "CR", "|", "[", "]") or a whole word ("Ivan") that the   *)
(*    code never looks inside.                                             *)
(*  - document_text is the only string whose length matters (the cache key *)
(*    slices its first 1000 characters); it is kept run-length encoded, a  *)
(*    sequence of runs [c |-> atom, n |-> count] with no two neighbouring  *)
(*    runs of the same atom.                                               *)
(*  - A JSON value is tagged with its Python type: [t |-> "str", v |-> s], *)
(*    [t |-> "num", v |-> digits], [t |-> "null", v |-> <<>>], and        *)
(*    [t |-> "list", v |-> <<>>] for the empty JSON array.  A parsed JSON   *)
(*    object (a dict) is a function from its keys to such values.          *)
(*  - The text of a model answer is a sequence of tokens: "{" and "}", a   *)
(*    piece of commentary, one "key": value member of an object, or a      *)
(*    scalar literal.                                                      *)
(*  - hashlib.md5(...).hexdigest() is taken to be injective: the cache key *)
(*    is the key_base string itself.                                       *)
(***************************************************************************)
EXTENDS Integers, Sequences, FiniteSets, TLC

VARIABLES
    script,          \* which variant runs: "test5", "test7", or "" in a harness
    pc,              \* position of the script / harness
    uploaded_docx,   \* st.file_uploader value: NoFile or a DOCX file
    uploaded_csv,    \* st.file_uploader value: NoFile or a CSV file
    api_key_input,   \* sidebar text input
    env_key,         \* os.getenv("MISTRAL_API_KEY", "")
    model_choice,    \* sidebar selectbox
    api_key,         \* local of the run
    document_text,   \* local of the run (run-length encoded)
    df_students,     \* local of the run: sequence of rows with role_ru added
    idx,             \* number of roster rows the loop has finished
    results,         \* list of task records
    errors,          \* list of error entries
    used_titles,     \* set of (title, description) pairs of the batch
    CACHE,           \* test7.py module-level memo cache
    remote_calls,    \* number of requests.post calls issued so far
    log,             \* history: per finished row / call, what happened
    call             \* harness: the last function call and its result

vars == <<script, pc, uploaded_docx, uploaded_csv, api_key_input, env_key,
          model_choice, api_key, document_text, df_students, idx, results,
          errors, used_titles, CACHE, remote_calls, log, call>>

-----------------------------------------------------------------------------
(* Bounds *)

MaxRows == 3        \* longest roster
MaxCalls == 2       \* most direct calls of generate_task_json in the harness

-----------------------------------------------------------------------------
(* Python str operations *)

Whitespace == {" ", "LF", "CR"}

RECURSIVE lstrip(_)
lstrip(s) ==
    IF s # <<>> /\ Head(s) \in Whitespace THEN lstrip(Tail(s)) ELSE s

RECURSIVE rstrip(_)
rstrip(s) ==
    IF s # <<>> /\ s[Len(s)] \in Whitespace
    THEN rstrip(SubSeq(s, 1, Len(s) - 1))
    ELSE s

\* str.strip()
strip(s) == rstrip(lstrip(s))

\* str.replace(old, new) for one-character old and new
replace(s, old, new) ==
    [i \in 1..Len(s) |-> IF s[i] = old THEN new ELSE s[i]]

-----------------------------------------------------------------------------
(* Run-length encoded text (document_text) *)

Run(c, n) == [c |-> c, n |-> n]

\* the canonical encoding: neighbouring runs of one atom merged
RECURSIVE Canon(_)
Canon(t) ==
    IF Len(t) < 2 THEN t
    ELSE IF t[1].c = t[2].c
         THEN Canon(<<Run(t[1].c, t[1].n + t[2].n)>> \o SubSeq(t, 3, Len(t)))
         ELSE <<t[1]>> \o Canon(Tail(t))

\* a str as runs of length one
Runs(s) == Canon([i \in 1..Len(s) |-> Run(s[i], 1)])

\* t[:k]
RECURSIVE Slice(_, _)
Slice(t, k) ==
    IF k = 0 \/ t = <<>> THEN <<>>
    ELSE IF t[1].n <= k
         THEN <<t[1]>> \o Slice(Tail(t), k - t[1].n)
         ELSE <<Run(t[1].c, k)>>

RECURSIVE text_lstrip(_)
text_lstrip(t) ==
    IF t # <<>> /\ t[1].c \in Whitespace THEN text_lstrip(Tail(t)) ELSE t

RECURSIVE text_rstrip(_)
text_rstrip(t) ==
    IF t # <<>> /\ t[Len(t)].c \in Whitespace
    THEN text_rstrip(SubSeq(t, 1, Len(t) - 1))
    ELSE t

text_strip(t) == text_rstrip(text_lstrip(t))

\* "\n".join(ps)
RECURSIVE join_lines(_)
join_lines(ps) ==
    IF ps = <<>> THEN <<>>
    ELSE IF Len(ps) = 1 THEN ps[1]
    ELSE Canon(ps[1] \o <<Run("LF", 1)>> \o join_lines(Tail(ps)))

\* [x for x in s if keep(x)] for the paragraphs of a document
RECURSIVE nonempty_stripped(_)
nonempty_stripped(ps) ==
    IF ps = <<>> THEN <<>>
    ELSE IF text_strip(ps[1]) # <<>>
         THEN <<text_strip(ps[1])>> \o nonempty_stripped(Tail(ps))
         ELSE nonempty_stripped(Tail(ps))

\* A DOCX file is [readable |-> BOOLEAN, paragraphs |-> sequence of texts].
\* docx.Document raising is readable = FALSE: the function reports and returns "".
extract_text_from_docx(file) ==
    IF ~file.readable THEN <<>>
    ELSE join_lines(nonempty_stripped(file.paragraphs))

-----------------------------------------------------------------------------
(* JSON values and dicts *)

Str(s) == [t |-> "str", v |-> s]
Num(s) == [t |-> "num", v |-> s]
Null == [t |-> "null", v |-> <<>>]
List == [t |-> "list", v |-> <<>>]

\* f"{x}" of a JSON value
format(x) ==
    IF x.t = "null" THEN <<"None">>
    ELSE IF x.t = "list" THEN <<"[", "]">>
    ELSE x.v

\* hash(x) does not raise
hashable(x) == x.t # "list"

EmptyDict == [k \in {} |-> Null]

\* d[k] = v
Put(d, k, v) == [f \in DOMAIN d \cup {k} |-> IF f = k THEN v ELSE d[f]]

\* d.get(k): None when the key is absent
Get(d, k) == IF k \in DOMAIN d THEN d[k] ELSE Null

-----------------------------------------------------------------------------
(* Answer text and its parsing *)

Tok(k, key, val) == [k |-> k, key |-> key, val |-> val]
Open == Tok("{", "", Null)
Close == Tok("}", "", Null)
Words == Tok("text", "", Null)
Member(key, val) == Tok("member", key, val)
Literal(val) == Tok("literal", "", val)

\* re.search(r'({.*})', text, re.DOTALL): the leftmost "{" that has a "}"
\* after it, up to the last "}" of the text; the text itself when none.
extract_json_from_text(text) ==
    LET opens == {i \in 1..Len(text) : text[i].k = "{"}
        closes == {i \in 1..Len(text) : text[i].k = "}"}
        starts == {i \in opens : \E j \in closes : j > i}
    IN  IF starts = {} THEN text
        ELSE LET i == CHOOSE a \in starts : \A b \in starts : a <= b
                 j == CHOOSE a \in closes : \A b \in closes : b <= a
             IN  SubSeq(text, i, j)

\* the members of an object, left to right: a repeated key keeps the last value
RECURSIVE object_of(_)
object_of(members) ==
    IF members = <<>> THEN EmptyDict
    ELSE LET m == members[Len(members)]
         IN  Put(object_of(SubSeq(members, 1, Len(members) - 1)), m.key, m.val)

\* json.loads(text): [exc, isdict, data]
json_loads(text) ==
    IF /\ Len(text) >= 2
       /\ text[1].k = "{"
       /\ text[Len(text)].k = "}"
       /\ \A i \in 2..(Len(text) - 1) : text[i].k = "member"
    THEN [exc |-> "", isdict |-> TRUE,
          data |-> object_of(SubSeq(text, 2, Len(text) - 1))]
    ELSE IF Len(text) = 1 /\ text[1].k = "literal"
    THEN [exc |-> "", isdict |-> FALSE, data |-> EmptyDict]
    ELSE [exc |-> "JSONDecodeError", isdict |-> FALSE, data |-> EmptyDict]

-----------------------------------------------------------------------------
(* test7.py: normalisation *)

STATUS_CHOICES == {<<"new">>, <<"in_progress">>, <<"completed">>, <<"cancelled">>}
PRIORITY_CHOICES == {<<"low">>, <<"medium">>, <<"high">>, <<"critical">>}

\* x in choices, for a list of str
in_choices(x, choices) == x.t = "str" /\ x.v \in choices

\* mutant: executor is filled in only when the answer has none (setdefault)
force_identity_keeps_executor(data, student_name, role_ru) ==
    Put(Put(Put(data, "role", Str(role_ru)),
            "executor", IF "executor" \in DOMAIN data THEN data["executor"]
                        ELSE Str(student_name)),
        "author", Str(<<"AI">>))

\* lines 25-27
force_identity(data, student_name, role_ru) ==
    Put(Put(Put(data, "role", Str(role_ru)),
            "executor", Str(student_name)),
        "author", Str(<<"AI">>))

\* mutant: the default is applied only to a missing status
default_status_only_missing(data) ==
    IF "status" \notin DOMAIN data
    THEN Put(data, "status", Str(<<"new">>))
    ELSE data

\* lines 28-29
default_status(data) ==
    IF ~in_choices(Get(data, "status"), STATUS_CHOICES)
    THEN Put(data, "status", Str(<<"new">>))
    ELSE data

\* lines 30-31
default_priority(data) ==
    IF ~in_choices(Get(data, "priority"), PRIORITY_CHOICES)
    THEN Put(data, "priority", Str(<<"medium">>))
    ELSE data

\* lines 33-34, for one key
clean_line_breaks(data, key) ==
    IF Get(data, key).t = "str"
    THEN Put(data, key,
             Str(strip(replace(replace(data[key].v, "LF", " "), "CR", " "))))
    ELSE data

\* normalize_json_result(data, student_name, role_ru): [exc, data]
normalize_json_result(isdict, data, student_name, role_ru) ==
    IF ~isdict
    THEN [exc |-> "ValueError: not a JSON object", data |-> EmptyDict]
    ELSE [exc |-> "",
          data |-> clean_line_breaks(
                     clean_line_breaks(
                       default_priority(
                         default_status(
                           force_identity(data, student_name, role_ru))),
                       "title"),
                     "description")]

-----------------------------------------------------------------------------
(* test7.py: memo cache and generation *)

KeyPrefixLen == 1000

\* mutant: the key is built from the whole document text
cache_key_whole_text(doc, student_name, role_ru, model) ==
    Canon(doc
          \o Runs(<<"|", "|">> \o student_name \o <<"|", "|">> \o role_ru
                  \o <<"|", "|">> \o model))

\* f"{document_text[:1000]}||{student_name}||{role_ru}||{model}", hashed
cache_key(doc, student_name, role_ru, model) ==
    Canon(Slice(doc, KeyPrefixLen)
          \o Runs(<<"|", "|">> \o student_name \o <<"|", "|">> \o role_ru
                  \o <<"|", "|">> \o model))

\* CACHE[key] = data
cache_put(cache, key, data) ==
    [k \in DOMAIN cache \cup {key} |-> IF k = key THEN data ELSE cache[k]]

\* lines 106-111: [exc, data, used].  has_titles is "used_titles is not None".
unique_title(data, role_ru, has_titles, used) ==
    IF ~has_titles THEN [exc |-> "", data |-> data, used |-> used]
    ELSE IF ~({"title", "description"} \subseteq DOMAIN data)
    THEN [exc |-> "KeyError", data |-> data, used |-> used]
    ELSE IF ~(hashable(data["title"]) /\ hashable(data["description"]))
    THEN [exc |-> "TypeError", data |-> data, used |-> used]
    ELSE LET title_key == <<data["title"], data["description"]>>
             d == IF title_key \in used
                  THEN Put(data, "title",
                           Str(format(data["title"]) \o <<" ", "[">> \o role_ru
                               \o <<"]">>))
                  ELSE data
         IN  [exc |-> "", data |-> d,
              used |-> used \cup {<<d["title"], d["description"]>>}]

\* what one call did: the exception raised ("" when it returned), the value
\* returned, the cache and the used-title set after it, requests.post calls made
Outcome(exc, ret, cache, used, posted) ==
    [exc |-> exc, ret |-> ret, cache |-> cache, used |-> used, posted |-> posted]

\* mutant: the parsed answer is stored in CACHE right after json.loads,
\* before it is normalised and its title made unique
generate_task_json7_caches_early(doc, student_name, role_ru, model, has_titles, used, response, cache) ==
    LET key == cache_key(doc, student_name, role_ru, model)
    IN  IF key \in DOMAIN cache
        THEN Outcome("", cache[key], cache, used, 0)
        ELSE IF response.kind # "ok"
        THEN Outcome(response.kind, EmptyDict, cache, used, 1)
        ELSE
        LET parsed == json_loads(extract_json_from_text(response.content))
            early == cache_put(cache, key, parsed.data)
        IN  IF parsed.exc # ""
            THEN Outcome("ValueError: JSON", EmptyDict, cache, used, 1)
            ELSE
            LET n == normalize_json_result(parsed.isdict, parsed.data,
                                           student_name, role_ru)
            IN  IF n.exc # ""
                THEN Outcome(n.exc, EmptyDict, early, used, 1)
                ELSE
                LET u == unique_title(n.data, role_ru, has_titles, used)
                IN  IF u.exc # ""
                    THEN Outcome(u.exc, EmptyDict, early, used, 1)
                    ELSE Outcome("", u.data, cache_put(cache, key, u.data),
                                 u.used, 1)

\* test7.py generate_task_json, lines 80-113.  A response is
\* [kind |-> "ok" | "HTTPError", content |-> answer text]; any other kind is
\* requests.post or raise_for_status raising.  The answer text carries no
\* blank tokens, so raw_text.strip() leaves it as it is.
generate_task_json7(doc, student_name, role_ru, model, has_titles, used, response, cache) ==
    LET key == cache_key(doc, student_name, role_ru, model)
    IN  IF key \in DOMAIN cache
        THEN Outcome("", cache[key], cache, used, 0)
        ELSE IF response.kind # "ok"
        THEN Outcome(response.kind, EmptyDict, cache, used, 1)
        ELSE
        LET raw_text == response.content
            parsed == json_loads(extract_json_from_text(raw_text))
        IN  IF parsed.exc # ""
            THEN Outcome("ValueError: JSON", EmptyDict, cache, used, 1)
            ELSE
            LET n == normalize_json_result(parsed.isdict, parsed.data,
                                           student_name, role_ru)
            IN  IF n.exc # ""
                THEN Outcome(n.exc, EmptyDict, cache, used, 1)
                ELSE
                LET u == unique_title(n.data, role_ru, has_titles, used)
                IN  IF u.exc # ""
                    THEN Outcome(u.exc, EmptyDict, cache, used, 1)
                    ELSE Outcome("", u.data, cache_put(cache, key, u.data),
                                 u.used, 1)

-----------------------------------------------------------------------------
(* test5.py: generation *)

required_fields ==
    {"title", "description", "status", "role", "executor", "author"}

\* test5.py generate_task_json, lines 43-106
generate_task_json5(doc, student_name, role_ru, key, model, response) ==
    IF key = <<>>
    THEN Outcome("ValueError: no API key", EmptyDict, <<>>, {}, 0)
    ELSE IF response.kind # "ok"
    THEN Outcome(response.kind, EmptyDict, <<>>, {}, 1)
    ELSE
    LET parsed == json_loads(response.content)
    IN  IF parsed.exc # ""
        THEN Outcome("ValueError: JSON", EmptyDict, <<>>, {}, 1)
        ELSE IF ~parsed.isdict
        THEN Outcome("AttributeError", EmptyDict, <<>>, {}, 1)
        ELSE IF ~(required_fields \subseteq DOMAIN parsed.data)
        THEN Outcome("ValueError: missing fields", EmptyDict, <<>>, {}, 1)
        ELSE Outcome("", parsed.data, <<>>, {}, 1)

-----------------------------------------------------------------------------
(* The script run: inputs *)

NoFile == [present |-> FALSE, readable |-> FALSE, paragraphs |-> <<>>,
           columns |-> {}, rows |-> <<>>]
Docx(readable, paragraphs) ==
    [present |-> TRUE, readable |-> readable, paragraphs |-> paragraphs,
     columns |-> {}, rows |-> <<>>]
Csv(readable, columns, rows) ==
    [present |-> TRUE, readable |-> readable, paragraphs |-> <<>>,
     columns |-> columns, rows |-> rows]

Row(student_name, role) == [student_name |-> student_name, role |-> role]

\* the rows a roster is drawn from: a mapped role, a name with trailing
\* blanks, an unmapped role that holds a line feed (a quoted CSV field)
RosterRows ==
    { Row(<<"Ivan">>, <<"Analyst">>),
      Row(<<"Maria", " ">>, <<"Analyst">>),
      Row(<<"Maria">>, <<"QA", "LF", "Lead">>) }

Rosters == UNION { [1..n -> RosterRows] : n \in 0..MaxRows }

DocxFiles ==
    { NoFile,
      Docx(FALSE, <<>>),
      Docx(TRUE, << <<Run(" ", 2)>> >>),
      Docx(TRUE, << <<Run(" ", 1), Run("a", 1000)>>, <<Run(" ", 3)>>,
                    <<Run("b", 1)>> >>) }

CsvFiles ==
    { NoFile,
      Csv(FALSE, {}, <<>>),
      Csv(TRUE, {"student_name"}, <<Row(<<"Ivan">>, <<>>)>>),
      Csv(TRUE, {"role"}, <<Row(<<>>, <<"Analyst">>)>>) }
    \cup { Csv(TRUE, {"student_name", "role"}, r) : r \in Rosters }

\* the sidebar input and the environment variable: a key typed in (with a
\* trailing blank), a blank input with the key in the environment, no key
KeyConfigs ==
    { [input |-> <<"k", " ">>, env |-> <<>>],
      [input |-> <<" ">>, env |-> <<"e">>],
      [input |-> <<" ">>, env |-> <<>>] }

T == <<"T">>
D == <<"D">>
Obj(members) == <<Open>> \o members \o <<Close>>
Ok(content) == [kind |-> "ok", content |-> content]
Failed(kind) == [kind |-> kind, content |-> <<>>]
NoResponse == Failed("none")

\* what the remote endpoint may answer to one request of a batch
Responses ==
    { Failed("HTTPError"),
      Ok(<<Words>>),
      Ok(<<Literal(Num(<<"7">>))>>),
      Ok(<<Words>> \o Obj(<<Member("title", Str(T)),
                            Member("description", Str(D))>>) \o <<Words>>),
      Ok(Obj(<<Member("description", Str(D))>>)),
      Ok(Obj(<<Member("title", Str(<<"T", "LF", "U">>)),
               Member("description", Str(<<"D", "CR">>)),
               Member("status", Str(<<"Done">>)),
               Member("role", Str(<<"X">>)),
               Member("executor", Str(<<"Z">>)),
               Member("author", Str(<<"Bot">>))>>)) }

EmptyCache == [k \in {} |-> EmptyDict]
NoCall == [fn |-> "", args |-> <<>>, out |-> <<>>]

-----------------------------------------------------------------------------
(* The script run: steps *)

\* role_mapping.get(r, r)
role_mapping_get(r) ==
    IF r = <<"Analyst">> THEN <<"Analitik">>
    ELSE IF r = <<"Tester">> THEN <<"Testirovshchik">>
    ELSE IF r = <<"Manager">> THEN <<"Menedzher">>
    ELSE IF r = <<"Designer">> THEN <<"Dizayner">>
    ELSE r

\* df_students["role_ru"] = df_students["role"].map(...)
with_role_ru(rows) ==
    [i \in 1..Len(rows) |->
        [student_name |-> rows[i].student_name, role |-> rows[i].role,
         role_ru |-> role_mapping_get(rows[i].role)]]

Checked(stop, key, text, rows) ==
    [stop |-> stop, api_key |-> key, document_text |-> text,
     df_students |-> rows]

\* mutant: the check of the extracted document text is missing
run_checks_no_text_check(docx, csv, key_input, env) ==
    IF ~docx.present THEN Checked("no DOCX", <<>>, <<>>, <<>>)
    ELSE IF ~csv.present THEN Checked("no CSV", <<>>, <<>>, <<>>)
    ELSE
    LET key == IF strip(key_input) # <<>> THEN strip(key_input) ELSE env
        text == extract_text_from_docx(docx)
        columns == IF csv.readable THEN csv.columns ELSE {}
        rows == IF csv.readable THEN csv.rows ELSE <<>>
    IN  IF key = <<>> THEN Checked("no API key", key, <<>>, <<>>)
        ELSE IF \/ rows = <<>> \/ columns = {}
                \/ "student_name" \notin columns
                \/ "role" \notin columns
        THEN Checked("bad CSV", key, text, <<>>)
        ELSE Checked("", key, text, with_role_ru(rows))

\* the checks between the button and the loop: the first failing one stops
\* the run (st.error), with the locals assigned so far
run_checks(docx, csv, key_input, env) ==
    IF ~docx.present THEN Checked("no DOCX", <<>>, <<>>, <<>>)
    ELSE IF ~csv.present THEN Checked("no CSV", <<>>, <<>>, <<>>)
    ELSE
    LET key == IF strip(key_input) # <<>> THEN strip(key_input) ELSE env
    IN  IF key = <<>> THEN Checked("no API key", key, <<>>, <<>>)
        ELSE
        LET text == extract_text_from_docx(docx)
        IN  IF text = <<>> THEN Checked("no document text", key, text, <<>>)
            ELSE
            LET columns == IF csv.readable THEN csv.columns ELSE {}
                rows == IF csv.readable THEN csv.rows ELSE <<>>
            IN  IF \/ rows = <<>> \/ columns = {}
                   \/ "student_name" \notin columns
                   \/ "role" \notin columns
                THEN Checked("bad CSV", key, text, <<>>)
                ELSE Checked("", key, text, with_role_ru(rows))

StopReasons == {"no DOCX", "no CSV", "no API key", "no document text", "bad CSV"}

\* "if generate_button:" up to the loop
generate_button ==
    /\ pc = "ready"
    /\ LET c == run_checks(uploaded_docx, uploaded_csv, api_key_input, env_key)
       IN  /\ pc' = IF c.stop = "" THEN "loop" ELSE c.stop
           /\ api_key' = c.api_key
           /\ document_text' = c.document_text
           /\ df_students' = c.df_students
    /\ idx' = 0
    /\ results' = <<>>
    /\ errors' = <<>>
    /\ used_titles' = {}
    /\ UNCHANGED <<script, uploaded_docx, uploaded_csv, api_key_input, env_key,
                   model_choice, CACHE, remote_calls, log, call>>

\* test7.py lines 152-192
generate_button7 ==
    /\ script = "test7"
    /\ generate_button

\* test5.py lines 182-237
generate_button5 ==
    /\ script = "test5"
    /\ generate_button

ErrorEntry(student_name, role_ru, e) ==
    [student_name |-> student_name, role_ru |-> role_ru, e |-> e]

\* history of one call: the arguments that identify the student, the answer
\* of the endpoint when a request was posted, and what the call did
LogEntry(doc, student_name, role_ru, model, has_titles, response, o) ==
    [doc |-> doc, student_name |-> student_name, role_ru |-> role_ru,
     model |-> model, has_titles |-> has_titles,
     response |-> IF o.posted = 0 THEN NoResponse ELSE response,
     posted |-> o.posted, exc |-> o.exc, ret |-> o.ret]

\* mutant: the except branch records nothing
loop_body_drops_error(student_name, role_ru, o) ==
    /\ results' = IF o.exc = "" THEN Append(results, o.ret) ELSE results
    /\ errors' = errors
    /\ idx' = idx + 1

\* mutant: a new record is put in front of the list (insert(0, ...))
loop_body_prepends(student_name, role_ru, o) ==
    /\ results' = IF o.exc = "" THEN <<o.ret>> \o results ELSE results
    /\ errors' = IF o.exc = "" THEN errors
                 ELSE Append(errors, ErrorEntry(student_name, role_ru, o.exc))
    /\ idx' = idx + 1

\* one iteration of the loop, given what the call did: try / except
\* Exception around the call, then the progress bar.  idx is the RangeIndex
\* pd.read_csv gives the frame, so (idx + 1) / total lies in (0, 1] and
\* progress_bar.progress does not raise.
loop_body(student_name, role_ru, o) ==
    /\ results' = IF o.exc = "" THEN Append(results, o.ret) ELSE results
    /\ errors' = IF o.exc = "" THEN errors
                 ELSE Append(errors, ErrorEntry(student_name, role_ru, o.exc))
    /\ idx' = idx + 1

\* test7.py lines 193-208
batch_row7 ==
    /\ script = "test7"
    /\ pc = "loop"
    /\ idx < Len(df_students)
    /\ \E response \in Responses :
        LET row == df_students[idx + 1]
            student_name == strip(row.student_name)
            role_ru == strip(row.role_ru)
            o == generate_task_json7(document_text, student_name, role_ru,
                                     model_choice, TRUE, used_titles,
                                     response, CACHE)
        IN  /\ loop_body(student_name, role_ru, o)
            /\ CACHE' = o.cache
            /\ used_titles' = o.used
            /\ remote_calls' = remote_calls + o.posted
            /\ log' = Append(log, LogEntry(document_text, student_name,
                                           role_ru, model_choice, TRUE,
                                           response, o))
    /\ UNCHANGED <<script, pc, uploaded_docx, uploaded_csv, api_key_input,
                   env_key, model_choice, api_key, document_text, df_students,
                   call>>

\* test5.py lines 239-256
batch_row5 ==
    /\ script = "test5"
    /\ pc = "loop"
    /\ idx < Len(df_students)
    /\ \E response \in Responses :
        LET row == df_students[idx + 1]
            student_name == strip(row.student_name)
            role_ru == strip(row.role_ru)
            o == generate_task_json5(document_text, student_name, role_ru,
                                     api_key, model_choice, response)
        IN  /\ loop_body(student_name, role_ru, o)
            /\ remote_calls' = remote_calls + o.posted
            /\ log' = Append(log, LogEntry(document_text, student_name,
                                           role_ru, model_choice, FALSE,
                                           response, o))
    /\ UNCHANGED <<script, pc, uploaded_docx, uploaded_csv, api_key_input,
                   env_key, model_choice, api_key, document_text, df_students,
                   used_titles, CACHE, call>>

\* the loop is exhausted: st.success(...) and the result table
finish ==
    /\ pc = "loop"
    /\ idx = Len(df_students)
    /\ pc' = "done"
    /\ UNCHANGED <<script, uploaded_docx, uploaded_csv, api_key_input, env_key,
                   model_choice, api_key, document_text, df_students, idx,
                   results, errors, used_titles, CACHE, remote_calls, log, call>>

\* test7.py line 209
finish7 ==
    /\ script = "test7"
    /\ finish

\* test5.py line 261
finish5 ==
    /\ script = "test5"
    /\ finish

Init ==
    /\ script \in {"test5", "test7"}
    /\ pc = "ready"
    /\ uploaded_docx \in DocxFiles
    /\ uploaded_csv \in CsvFiles
    /\ \E k \in KeyConfigs : api_key_input = k.input /\ env_key = k.env
    /\ model_choice = <<"mistral-small">>
    /\ api_key = <<>>
    /\ document_text = <<>>
    /\ df_students = <<>>
    /\ idx = 0
    /\ results = <<>>
    /\ errors = <<>>
    /\ used_titles = {}
    /\ CACHE = EmptyCache
    /\ remote_calls = 0
    /\ log = <<>>
    /\ call = NoCall

Next ==
    \/ generate_button5
    \/ generate_button7
    \/ batch_row5
    \/ batch_row7
    \/ finish5
    \/ finish7

Spec == Init /\ [][Next]_vars

-----------------------------------------------------------------------------
(* Reading the history *)

\* the rows the loop has finished whose call returned / raised, in order
OkRows == SelectSeq([i \in 1..Len(log) |-> i], LAMBDA i : log[i].exc = "")
FailedRows == SelectSeq([i \in 1..Len(log) |-> i], LAMBDA i : log[i].exc # "")

has_line_break(x) == x.t = "str" /\ \E i \in 1..Len(x.v) : x.v[i] \in {"LF", "CR"}

\* the JSON object the endpoint's answer text holds, as test7.py reads it
answer_of(entry) == json_loads(extract_json_from_text(entry.response.content))

\* the endpoint answered row i with an object that has a title and a description
answered(i) ==
    /\ log[i].posted = 1
    /\ log[i].response.kind = "ok"
    /\ answer_of(log[i]).isdict
    /\ {"title", "description"} \subseteq DOMAIN answer_of(log[i]).data

-----------------------------------------------------------------------------
(* Claims about the script run (specification Spec) *)

\* C1: when the batch loop finishes, the number of records in results plus
\* the number of entries in errors equals the number of roster rows, in both
\* variants and whatever each call did.
C1_ResultsPlusErrors ==
    /\ pc = "loop" => Len(results) + Len(errors) = idx
    /\ pc = "done" => Len(results) + Len(errors) = Len(df_students)

C1_Witness ==
    /\ pc = "done"
    /\ script = "test5"
    /\ Len(df_students) = 3
    /\ Len(results) = 1
    /\ Len(errors) = 2

\* C4 (as claimed): in the simpler variant every returned record has status
\* "Todo" and executor and role equal to the student's name and localized
\* role, whatever the model answered.
C4_Claim ==
    script = "test5" =>
        \A k \in 1..Len(results) :
            /\ results[k]["status"] = Str(<<"Todo">>)
            /\ results[k]["executor"] = Str(log[OkRows[k]].student_name)
            /\ results[k]["role"] = Str(log[OkRows[k]].role_ru)

\* C6 (as claimed): for any two rows of one batch whose answers have the same
\* (title, description), the later row's record has its title suffixed with
\* " [<its role>]" and the used-title set holds two distinct pairs, one per row.
C6_Claim ==
    script = "test7" =>
        \A i, j \in 1..Len(log) :
            ( /\ i < j
              /\ answered(i) /\ answered(j)
              /\ log[i].exc = "" /\ log[j].exc = ""
              /\ answer_of(log[i]).data["title"] = answer_of(log[j]).data["title"]
              /\ answer_of(log[i]).data["description"]
                    = answer_of(log[j]).data["description"] )
            =>
            LET ri == log[i].ret
                rj == log[j].ret
                clean == clean_line_breaks(answer_of(log[j]).data, "title")
            IN  /\ rj["title"] = Str(format(clean["title"]) \o <<" ", "[">>
                                     \o log[j].role_ru \o <<"]">>)
                /\ <<ri["title"], ri["description"]>> \in used_titles
                /\ <<rj["title"], rj["description"]>> \in used_titles
                /\ <<ri["title"], ri["description"]>>
                      # <<rj["title"], rj["description"]>>

\* C7: rows are processed in roster order and a failing row never stops the
\* loop: results is exactly the records of the rows that succeeded, in roster
\* order; every failed row has exactly one entry in errors, naming its student,
\* and none in results.
C7_OrderAndPartialFailure ==
    pc \in {"loop", "done"} =>
        /\ Len(log) = idx
        /\ pc = "done" => idx = Len(df_students)
        /\ \A i \in 1..Len(log) :
              /\ log[i].student_name = strip(df_students[i].student_name)
              /\ log[i].role_ru = strip(df_students[i].role_ru)
        /\ LET ok == OkRows
               failed == FailedRows
           IN  /\ results = [k \in 1..Len(ok) |-> log[ok[k]].ret]
               /\ Len(errors) = Len(failed)
               /\ \A k \in 1..Len(failed) :
                     /\ errors[k].student_name
                           = strip(df_students[failed[k]].student_name)
                     /\ errors[k].role_ru = strip(df_students[failed[k]].role_ru)
                     /\ errors[k].e = log[failed[k]].exc

C7_Witness ==
    /\ pc = "done"
    /\ script = "test7"
    /\ Len(df_students) = 3
    /\ log[1].exc = "" /\ log[2].exc # "" /\ log[3].exc = ""
    /\ Len(results) = 2

\* C9 (as claimed): in the extended variant the title and description strings
\* of every returned record hold no line feed and no carriage return.
C9_Claim ==
    script = "test7" =>
        \A k \in 1..Len(results) :
            /\ ~has_line_break(Get(results[k], "title"))
            /\ ~has_line_break(Get(results[k], "description"))

\* what C10 requires of the inputs, in its own words
inputs_ok ==
    /\ uploaded_docx.present
    /\ uploaded_csv.present
    /\ (strip(api_key_input) # <<>> \/ env_key # <<>>)
    /\ extract_text_from_docx(uploaded_docx) # <<>>
    /\ uploaded_csv.readable
    /\ uploaded_csv.rows # <<>>
    /\ {"student_name", "role"} \subseteq uploaded_csv.columns

\* C10: no remote call is issued unless a document and a roster were supplied,
\* an API key is available, the document text is non-empty and the roster is
\* non-empty with both columns; otherwise the run stops with zero remote calls.
C10_NoCallBeforeChecks ==
    LET ok == inputs_ok
    IN  /\ remote_calls > 0 => ok
        /\ (pc # "ready" /\ ~ok) => (pc \in StopReasons /\ remote_calls = 0)
        /\ pc \in {"loop", "done"} =>
              (ok /\ api_key # <<>> /\ document_text # <<>>)

C10_Witness ==
    /\ pc = "done"
    /\ remote_calls = 2
    /\ api_key = env_key

-----------------------------------------------------------------------------
(* normalize_json_result on its own (specification SpecNorm) *)

Absent == [t |-> "absent", v |-> <<>>]

\* the dicts json.loads may hand to normalize_json_result: per key, the key
\* is absent or holds one of these values
AnswerFields ==
    [ title : {Absent, Null, List, Num(<<"7">>), Str(T),
               Str(<<" ", "T", "LF", "CR", "U", "LF">>)},
      description : {Absent, Str(D), Str(<<"D", "CR", "LF", "E">>)},
      status : {Absent, Null, Num(<<"7">>), Str(<<"new">>),
                Str(<<"in_progress">>), Str(<<"completed">>),
                Str(<<"cancelled">>), Str(<<"Done">>), Str(<<"NEW">>)},
      priority : {Absent, Str(<<"high">>), Str(<<"urgent">>)},
      role : {Absent, Str(<<"X">>)},
      executor : {Absent, Str(<<"Z">>)},
      author : {Absent, Str(<<"Bot">>)} ]

dict_of(f) == [k \in {k \in DOMAIN f : f[k] # Absent} |-> f[k]]

StudentNames == {<<"Ivan">>, <<"Maria">>}
RolesRu == {<<"Analitik">>, <<"QA", "LF", "Lead">>}

NormCall(isdict, data, student_name, role_ru, returned, out) ==
    [fn |-> "normalize_json_result", isdict |-> isdict, data |-> data,
     student_name |-> student_name, role_ru |-> role_ru,
     returned |-> returned, out |-> out]

NoOut == [exc |-> "", data |-> EmptyDict]

InitNorm ==
    /\ script = ""
    /\ pc = "normalize"
    /\ uploaded_docx = NoFile
    /\ uploaded_csv = NoFile
    /\ api_key_input = <<>>
    /\ env_key = <<>>
    /\ model_choice = <<"mistral-small">>
    /\ api_key = <<>>
    /\ document_text = <<>>
    /\ df_students = <<>>
    /\ idx = 0
    /\ results = <<>>
    /\ errors = <<>>
    /\ used_titles = {}
    /\ CACHE = EmptyCache
    /\ remote_calls = 0
    /\ log = <<>>
    /\ \E f \in AnswerFields, isdict \in BOOLEAN,
          student_name \in StudentNames, role_ru \in RolesRu :
          /\ isdict \/ f = [k \in DOMAIN f |-> Absent]
          /\ call = NormCall(isdict, dict_of(f), student_name, role_ru,
                             FALSE, NoOut)

\* the call of normalize_json_result returns or raises
normalize_step ==
    /\ pc = "normalize"
    /\ ~call.returned
    /\ call' = NormCall(call.isdict, call.data, call.student_name,
                        call.role_ru, TRUE,
                        normalize_json_result(call.isdict, call.data,
                                              call.student_name, call.role_ru))
    /\ UNCHANGED <<script, pc, uploaded_docx, uploaded_csv, api_key_input,
                   env_key, model_choice, api_key, document_text, df_students,
                   idx, results, errors, used_titles, CACHE, remote_calls, log>>

NextNorm == normalize_step

SpecNorm == InitNorm /\ [][NextNorm]_vars

\* C3: for every parsed answer that is a JSON object, the normalized record
\* has executor = the student's name, role = the student's localized role and
\* author = "AI", whatever the answer held (or lacked) for these fields.
C3_IdentityForced ==
    (call.returned /\ call.isdict) =>
        /\ call.out.exc = ""
        /\ {"executor", "role", "author"} \subseteq DOMAIN call.out.data
        /\ call.out.data["executor"] = Str(call.student_name)
        /\ call.out.data["role"] = Str(call.role_ru)
        /\ call.out.data["author"] = Str(<<"AI">>)

C3_Witness ==
    /\ call.returned /\ call.isdict
    /\ Get(call.data, "executor") = Str(<<"Z">>)
    /\ Get(call.data, "role") = Str(<<"X">>)
    /\ Get(call.data, "author") = Str(<<"Bot">>)
    /\ call.student_name = <<"Maria">>
    /\ call.out.data["executor"] = Str(<<"Maria">>)

status_names == {"new", "in_progress", "completed", "cancelled"}

\* the answer's status is one of the four names
status_in_enum(data) ==
    /\ "status" \in DOMAIN data
    /\ \E name \in status_names : data["status"] = Str(<<name>>)

\* C8: for every answer (status missing, not a string, or outside the enum
\* included) the normalized status is one of new, in_progress, completed,
\* cancelled, and a status that was not in the enum is reset to "new".
C8_StatusInEnum ==
    (call.returned /\ call.isdict) =>
        /\ status_in_enum(call.out.data)
        /\ ~status_in_enum(call.data) => call.out.data["status"] = Str(<<"new">>)

C8_Witness ==
    /\ call.returned /\ call.isdict
    /\ Get(call.data, "status") = Str(<<"Done">>)
    /\ call.out.data["status"] = Str(<<"new">>)

-----------------------------------------------------------------------------
(* Direct calls of test7.py generate_task_json (specification SpecGen) *)

DocA == <<Run("a", 1000), Run("LF", 1), Run("b", 1)>>
DocA2 == <<Run("a", 1001)>>
DocB == <<Run("b", 5)>>

GenArg(doc, student_name, role_ru, model) ==
    [doc |-> doc, student_name |-> student_name, role_ru |-> role_ru,
     model |-> model]

\* argument tuples: one base tuple, one that differs from it only beyond the
\* first 1000 characters of the document, and one differing in each key part
GenArgs ==
    { GenArg(DocA, <<"Ivan">>, <<"Analitik">>, <<"mistral-small">>),
      GenArg(DocA2, <<"Ivan">>, <<"Analitik">>, <<"mistral-small">>),
      GenArg(DocB, <<"Ivan">>, <<"Analitik">>, <<"mistral-small">>),
      GenArg(DocA, <<"Maria">>, <<"Analitik">>, <<"mistral-small">>),
      GenArg(DocA, <<"Ivan">>, <<"QA", "LF", "Lead">>, <<"mistral-small">>),
      GenArg(DocA, <<"Ivan">>, <<"Analitik">>, <<"mistral-large">>) }

GenResponses ==
    { Failed("HTTPError"),
      Ok(<<Words>>),
      Ok(<<Literal(Null)>>),
      Ok(Obj(<<Member("title", Str(T)), Member("description", Str(D))>>)),
      Ok(Obj(<<Member("title", List), Member("description", Str(D))>>)),
      Ok(Obj(<<Member("description", Str(D))>>)) }

InitGen ==
    /\ script = ""
    /\ pc = "harness"
    /\ uploaded_docx = NoFile
    /\ uploaded_csv = NoFile
    /\ api_key_input = <<>>
    /\ env_key = <<>>
    /\ model_choice = <<"mistral-small">>
    /\ api_key = <<"k">>
    /\ document_text = <<>>
    /\ df_students = <<>>
    /\ idx = 0
    /\ results = <<>>
    /\ errors = <<>>
    /\ used_titles = {}
    /\ CACHE = EmptyCache
    /\ remote_calls = 0
    /\ log = <<>>
    /\ call = NoCall

\* one call generate_task_json(...), with used_titles passed or left None
gen_call ==
    /\ pc = "harness"
    /\ Len(log) < MaxCalls
    /\ \E a \in GenArgs, has_titles \in BOOLEAN, response \in GenResponses :
        LET o == generate_task_json7(a.doc, a.student_name, a.role_ru, a.model,
                                     has_titles, used_titles, response, CACHE)
        IN  /\ CACHE' = o.cache
            /\ used_titles' = o.used
            /\ remote_calls' = remote_calls + o.posted
            /\ log' = Append(log, LogEntry(a.doc, a.student_name, a.role_ru,
                                           a.model, has_titles, response, o))
    /\ UNCHANGED <<script, pc, uploaded_docx, uploaded_csv, api_key_input,
                   env_key, model_choice, api_key, document_text, df_students,
                   idx, results, errors, call>>

NextGen == gen_call

SpecGen == InitGen /\ [][NextGen]_vars

\* two documents agree on their first 1000 characters
same_prefix(d1, d2) == Slice(d1, 1000) = Slice(d2, 1000)

same_arguments(e1, e2) ==
    /\ same_prefix(e1.doc, e2.doc)
    /\ e1.student_name = e2.student_name
    /\ e1.role_ru = e2.role_ru
    /\ e1.model = e2.model

\* C2: of two calls with the same (first 1000 characters of document_text,
\* student_name, role, model), the first one successful, the second returns
\* a record equal to the first one's and issues no remote call.
C2_CacheHit ==
    /\ \A i, j \in 1..Len(log) :
          (i < j /\ same_arguments(log[i], log[j]) /\ log[i].exc = "")
          => /\ log[j].exc = ""
             /\ log[j].ret = log[i].ret
             /\ log[j].posted = 0
    /\ \A i \in 1..Len(log) : log[i].posted \in {0, 1}
    /\ remote_calls = Cardinality({i \in 1..Len(log) : log[i].posted = 1})

C2_Witness ==
    /\ Len(log) = 2
    /\ log[1].doc = DocA /\ log[2].doc = DocA2
    /\ same_arguments(log[1], log[2])
    /\ log[1].exc = "" /\ log[1].posted = 1
    /\ log[2].posted = 0
    /\ remote_calls = 1

required_fields7 == required_fields \cup {"priority"}

\* C5 (as claimed): a call, with or without used_titles, either fails or
\* returns a record that has every required field; it never returns a record
\* without title or description.
C5_Claim ==
    \A i \in 1..Len(log) :
        log[i].exc = "" => required_fields7 \subseteq DOMAIN log[i].ret

-----------------------------------------------------------------------------
(* extract_json_from_text on its own (specification SpecExtract) *)

MaxTextLen == 4     \* longest answer text, in tokens

\* what an answer text is made of: braces, commentary, a member of an object
TextTokens == {Open, Close, Words, Member("title", Str(T))}

AnswerTexts == UNION { [1..n -> TextTokens] : n \in 0..MaxTextLen }

ExtractCall(text, returned, out) ==
    [fn |-> "extract_json_from_text", text |-> text, returned |-> returned,
     out |-> out]

InitExtract ==
    /\ script = ""
    /\ pc = "extract"
    /\ uploaded_docx = NoFile
    /\ uploaded_csv = NoFile
    /\ api_key_input = <<>>
    /\ env_key = <<>>
    /\ model_choice = <<"mistral-small">>
    /\ api_key = <<>>
    /\ document_text = <<>>
    /\ df_students = <<>>
    /\ idx = 0
    /\ results = <<>>
    /\ errors = <<>>
    /\ used_titles = {}
    /\ CACHE = EmptyCache
    /\ remote_calls = 0
    /\ log = <<>>
    /\ \E text \in AnswerTexts : call = ExtractCall(text, FALSE, <<>>)

\* the call of extract_json_from_text returns
extract_step ==
    /\ pc = "extract"
    /\ ~call.returned
    /\ call' = ExtractCall(call.text, TRUE, extract_json_from_text(call.text))
    /\ UNCHANGED <<script, pc, uploaded_docx, uploaded_csv, api_key_input,
                   env_key, model_choice, api_key, document_text, df_students,
                   idx, results, errors, used_titles, CACHE, remote_calls, log>>

NextExtract == extract_step

SpecExtract == InitExtract /\ [][NextExtract]_vars

\* braces opened minus braces closed in text[i..j]
depth(text, i, j) ==
    Cardinality({k \in i..j : text[k].k = "{"})
    - Cardinality({k \in i..j : text[k].k = "}"})

\* text[i..j] is a brace-delimited span: it opens at i and first closes at j
is_span(text, i, j) ==
    /\ i < j
    /\ text[i].k = "{"
    /\ depth(text, i, j) = 0
    /\ \A k \in i..(j - 1) : depth(text, i, k) > 0

span_starts(text) ==
    {i \in 1..Len(text) : \E j \in 1..Len(text) : is_span(text, i, j)}

\* the first top-level {...} span of the text; the text when it has none
first_span(text) ==
    IF span_starts(text) = {} THEN text
    ELSE LET i == CHOOSE a \in span_starts(text) :
                     \A b \in span_starts(text) : a <= b
             j == CHOOSE b \in 1..Len(text) : is_span(text, i, b)
         IN  SubSeq(text, i, j)

\* C11 (as claimed): for any answer text, extract_json_from_text returns the
\* first top-level brace-delimited span of the text, whatever commentary (with
\* braces of its own or not) surrounds it, and the text itself when there is
\* no such span.
C11_Claim ==
    (pc = "extract" /\ call.returned) => call.out = first_span(call.text)

-----------------------------------------------------------------------------
(* Further claims about the batch (Spec) and about direct calls (SpecGen) *)

title_pair(record) == <<Get(record, "title"), Get(record, "description")>>

\* C12 (as claimed): at the end of an extended-variant batch the
\* (title, description) pairs of the records in results are pairwise distinct,
\* whatever the roster and the answers (three rows with one role and one
\* answer, and rows repeating an earlier name and role, included).
C12_Claim ==
    (script = "test7" /\ pc = "done") =>
        \A i, j \in 1..Len(results) :
            i # j => title_pair(results[i]) # title_pair(results[j])

\* between calls i and j no call with the arguments of call i succeeded
no_success_between(i, j) ==
    \A k \in (i + 1)..(j - 1) :
        ~(same_arguments(log[i], log[k]) /\ log[k].exc = "")

\* a failed call is followed by a remote call for the same arguments
failed_calls_repeat ==
    \A i, j \in 1..Len(log) :
        ( /\ i < j
          /\ log[i].exc # ""
          /\ same_arguments(log[i], log[j])
          /\ no_success_between(i, j) )
        => log[j].posted = 1

\* C13: a call of generate_task_json that fails (remote error, unparsable
\* answer, answer that is no object, missing title or description) leaves the
\* cache and the used-title set as they were, so that a later call with the
\* same key issues a remote call again.
C13_FailureLeavesNoTrace ==
    [][ /\ (Len(log') = Len(log) + 1 /\ log'[Len(log')].exc # "")
            => (CACHE' = CACHE /\ used_titles' = used_titles)
        /\ failed_calls_repeat' ]_vars

C13_Witness ==
    /\ Len(log) = 2
    /\ log[1].has_titles
    /\ log[1].exc = "KeyError"
    /\ same_arguments(log[1], log[2])
    /\ log[2].posted = 1
    /\ log[2].exc = ""
    /\ DOMAIN CACHE # {}

====
